---- MODULE Spec2Model ----
(***************************************************************************)
(* Student records and grading application: the record store (students,    *)
(* subjects, grades tables of database.py), the pass/fail rule             *)
(* Grade.is_failed, the two progression gates db_check_prerequisite and    *)
(* db_check_is_prerequisite_for_later_semester, and the grade requests of  *)
(* app.py (add_grade, update_grade, delete_grade).                         *)
(*                                                                         *)
(* Scores are REAL columns; they are modelled as integers.  The            *)
(* display-only columns (name, credit_h, structure, the student profile)   *)
(* take no part in any rule modelled here and are left out of the rows.    *)
(* now is the store's CURRENT_TIMESTAMP, seq the AUTOINCREMENT sequence of *)
(* the subjects table (the greatest id ever given).                        *)
(***************************************************************************)
EXTENDS Integers, FiniteSets, Sequences, TLC

VARIABLES students, subjects, grades, ret, pc, now, seq

vars == <<students, subjects, grades, ret, pc, now, seq>>

(***************************************************************************)
(* Bounds of the model.                                                    *)
(***************************************************************************)
MaxRows == 2          \* rows the grades table may hold
MaxSemester == 3      \* semesters a request may name: 1..MaxSemester
MaxScore == 40        \* scores tried on Grade.is_failed: 0..MaxScore
MaxClock == 1         \* seconds CURRENT_TIMESTAMP may advance: 0..MaxClock
MaxSubjectId == 3     \* subject ids AUTOINCREMENT may hand out: 1..MaxSubjectId

StudentIds == {1, 2}
SubjectIds == {1, 2, 3}
Semesters == 1..MaxSemester

\* SQL NULL / Python None in the prerequisite column; falsy like 0.
NULL == 0

\* One row of the subjects table (id, semester, code, prerequisite).
Subject(id, semester, code, prerequisite) ==
    [id |-> id, semester |-> semester, code |-> code,
     prerequisite |-> prerequisite]

\* One row of the grades table, as written now: last_updated is
\* CURRENT_TIMESTAMP on INSERT and on UPDATE.
Grade(student_id, subject_id, semester, coursework, final, attended_final, is_finalized) ==
    [student_id |-> student_id, subject_id |-> subject_id,
     semester |-> semester, coursework |-> coursework, final |-> final,
     attended_final |-> attended_final, is_finalized |-> is_finalized,
     last_updated |-> now]

\* Values a grade form can post: coursework, final, attended_final,
\* is_finalized (the last two are 1 or 0).
FormValues ==
    { <<20, 60, 1, 1>>,      \* finalized, passes
      <<12, 60, 1, 1>>,      \* finalized, coursework below the floor
      <<20, 60, 1, 0>> }     \* not finalized

\* Catalogs the gates are exercised on: a chain 1 <- 2 <- 3 and a fan
\* 1 <- 2, 1 <- 3 (prerequisite <- dependent).
ChainCatalog ==
    { Subject(1, 1, "A", NULL), Subject(2, 2, "B", 1), Subject(3, 3, "C", 2) }

FanCatalog ==
    { Subject(1, 1, "A", NULL), Subject(2, 2, "B", 1), Subject(3, 2, "C", 1) }

Catalogs == { ChainCatalog, FanCatalog }

\* is_failed with the attendance test moved before the coursework floor.
is_failed_attendance_first(g) ==
    IF g.is_finalized = 0 THEN "no"
    ELSE IF g.attended_final = 0 THEN "final_attendance"
    ELSE IF g.coursework < 13 THEN "coursework"
    ELSE IF g.final + g.coursework < 50 THEN "final"
    ELSE "no"

\* is_failed without the test of the finalized flag.
is_failed_ignores_finalized(g) ==
    IF g.coursework < 13 THEN "coursework"
    ELSE IF g.attended_final = 0 THEN "final_attendance"
    ELSE IF g.final + g.coursework < 50 THEN "final"
    ELSE "no"

(***************************************************************************)
(* Grade.is_failed: the reason a grade is failed, "no" when it is not.     *)
(***************************************************************************)
is_failed(g) ==
    IF g.is_finalized = 0 THEN "no"
    ELSE IF g.coursework < 13 THEN "coursework"
    ELSE IF g.attended_final = 0 THEN "final_attendance"
    ELSE IF g.final + g.coursework < 50 THEN "final"
    ELSE "no"

(***************************************************************************)
(* Reads of the record store.                                              *)
(***************************************************************************)
\* fetchone() of SELECT * FROM students WHERE id = ?: zero or one row.
db_get_student_by_id(student_id) == { s \in students : s = student_id }

\* fetchone() of SELECT * FROM subjects WHERE id = ?: zero or one row.
db_get_subject_by_id(subject_id) == { s \in subjects : s.id = subject_id }

\* prerequisite_rows with semester <= ? in place of semester < ?.
prerequisite_rows_same_semester(student_id, prerequisite, semester) ==
    { g \in grades : /\ g.student_id = student_id
                     /\ g.subject_id = prerequisite
                     /\ g.semester <= semester
                     /\ \E s \in subjects : s.id = g.subject_id }

\* The rows of the prerequisite query: grades of the student for the
\* prerequisite at an earlier semester, joined with the subjects table.
prerequisite_rows(student_id, prerequisite, semester) ==
    { g \in grades : /\ g.student_id = student_id
                     /\ g.subject_id = prerequisite
                     /\ g.semester < semester
                     /\ \E s \in subjects : s.id = g.subject_id }

\* db_check_prerequisite without the early return for a subject that has
\* no prerequisite.
db_check_prerequisite_no_early_return(student_id, subject_id, semester) ==
    LET subject == db_get_subject_by_id(subject_id)
    IN  IF subject = {}
        THEN {TRUE}
        ELSE LET p == (CHOOSE s \in subject : TRUE).prerequisite
                 rows == { g \in grades : /\ g.student_id = student_id
                                          /\ g.subject_id = p
                                          /\ g.semester < semester }
             IN  IF rows = {} THEN {FALSE}
                 ELSE { is_failed(r) = "no" : r \in rows }

\* db_check_prerequisite returning False for a subject id that is not in
\* the subjects table.
db_check_prerequisite_rejecting_unknown(student_id, subject_id, semester) ==
    LET subject == db_get_subject_by_id(subject_id)
    IN  IF subject = {}
        THEN {FALSE}
        ELSE IF \A s \in subject : s.prerequisite = NULL
             THEN {TRUE}
             ELSE LET p == (CHOOSE s \in subject : TRUE).prerequisite
                      rows == prerequisite_rows(student_id, p, semester)
                  IN  IF rows = {} THEN {FALSE}
                      ELSE { is_failed(r) = "no" : r \in rows }

\* db_check_prerequisite: the values the call may return.  The query has
\* no ORDER BY, so rows[0] is any one of the matching rows.
db_check_prerequisite(student_id, subject_id, semester) ==
    LET subject == db_get_subject_by_id(subject_id)
    IN  IF subject = {} \/ (\A s \in subject : s.prerequisite = NULL)
        THEN {TRUE}
        ELSE LET p == (CHOOSE s \in subject : TRUE).prerequisite
                 rows == prerequisite_rows(student_id, p, semester)
             IN  IF rows = {} THEN {FALSE}
                 ELSE { is_failed(r) = "no" : r \in rows }

\* db_check_is_prerequisite_for_later_semester following the prerequisite
\* links two levels deep (dependents of dependents count).
db_check_is_prerequisite_transitive(student_id, subject_id, semester) ==
    LET direct_ids == { s.id : s \in { d \in subjects :
                                         d.prerequisite = subject_id } }
        dependent_ids == direct_ids \cup
            { s.id : s \in { d \in subjects : d.prerequisite \in direct_ids } }
        later_grades == { g \in grades : /\ g.student_id = student_id
                                         /\ g.subject_id \in dependent_ids
                                         /\ g.semester > semester }
    IN  IF dependent_ids = {} THEN TRUE ELSE later_grades = {}

\* db_check_is_prerequisite_for_later_semester without the query on the
\* grades table: no later grade is ever found.
db_check_is_prerequisite_without_grades_query(student_id, subject_id, semester) ==
    TRUE

\* db_check_is_prerequisite_for_later_semester with g.semester < ? in place
\* of g.semester > ?.
db_check_is_prerequisite_for_earlier_semester(student_id, subject_id, semester) ==
    ~ \E g \in grades, s \in subjects :
          /\ g.subject_id = s.id
          /\ s.prerequisite = subject_id
          /\ g.student_id = student_id
          /\ g.semester < semester

\* db_check_is_prerequisite_for_later_semester without the student_id = ?
\* condition on the grades.
db_check_is_prerequisite_any_student(student_id, subject_id, semester) ==
    LET dependent_ids == { s.id : s \in { d \in subjects :
                                            d.prerequisite = subject_id } }
        later_grades == { g \in grades : /\ g.subject_id \in dependent_ids
                                         /\ g.semester > semester }
    IN  IF dependent_ids = {} THEN TRUE ELSE later_grades = {}

\* db_check_is_prerequisite_for_later_semester: TRUE when the grade may be
\* deleted.
db_check_is_prerequisite_for_later_semester(student_id, subject_id, semester) ==
    LET dependent_ids == { s.id : s \in { d \in subjects :
                                            d.prerequisite = subject_id } }
        later_grades == { g \in grades : /\ g.student_id = student_id
                                         /\ g.subject_id \in dependent_ids
                                         /\ g.semester > semester }
    IN  IF dependent_ids = {} THEN TRUE ELSE later_grades = {}

(***************************************************************************)
(* Writes of the grades table.  Each is one transaction: it commits or     *)
(* rolls back as a whole.                                                  *)
(***************************************************************************)
\* Rows with the primary key (student_id, subject_id, semester).
grade_rows(student_id, subject_id, semester) ==
    { g \in grades : /\ g.student_id = student_id
                     /\ g.subject_id = subject_id
                     /\ g.semester = semester }

\* db_add_grade on a table without the primary key: the row is always
\* added.
db_add_grade_without_key(student_id, subject_id, semester, coursework, final, attended_final, is_finalized) ==
    grades' = grades \cup { Grade(student_id, subject_id, semester,
                                  coursework, final, attended_final,
                                  is_finalized) }

\* db_add_grade as INSERT OR REPLACE: a row with the same primary key is
\* replaced by the new one.
db_add_grade_or_replace(student_id, subject_id, semester, coursework, final, attended_final, is_finalized) ==
    grades' = (grades \ grade_rows(student_id, subject_id, semester))
                  \cup { Grade(student_id, subject_id, semester, coursework,
                               final, attended_final, is_finalized) }

\* INSERT INTO grades: fails on the primary key, else adds the row.
db_add_grade(student_id, subject_id, semester, coursework, final, attended_final, is_finalized) ==
    IF grade_rows(student_id, subject_id, semester) # {}
    THEN grades' = grades
    ELSE grades' = grades \cup { Grade(student_id, subject_id, semester,
                                       coursework, final, attended_final,
                                       is_finalized) }

\* The value db_add_grade returns: False when the INSERT raised.
db_add_grade_result(student_id, subject_id, semester) ==
    grade_rows(student_id, subject_id, semester) = {}

\* db_update_grade as UPDATE OR REPLACE: the rows of the student and
\* subject are replaced by the one rewritten row.
db_update_grade_or_replace(student_id, subject_id, semester, coursework, final, attended_final, is_finalized) ==
    LET matched == { g \in grades : /\ g.student_id = student_id
                                    /\ g.subject_id = subject_id }
    IN  IF matched = {}
        THEN grades' = grades
        ELSE grades' = (grades \ matched)
                           \cup { Grade(student_id, subject_id, semester,
                                        coursework, final, attended_final,
                                        is_finalized) }

\* UPDATE grades SET semester = ?, ... WHERE student_id = ? AND
\* subject_id = ?: every row of the student and subject is rewritten to the
\* one semester; two such rows collide on the primary key and the
\* statement is rolled back.
db_update_grade(student_id, subject_id, semester, coursework, final, attended_final, is_finalized) ==
    LET matched == { g \in grades : /\ g.student_id = student_id
                                    /\ g.subject_id = subject_id }
    IN  IF Cardinality(matched) > 1
        THEN grades' = grades
        ELSE grades' = (grades \ matched) \cup
                 { Grade(g.student_id, g.subject_id, semester, coursework,
                         final, attended_final, is_finalized) : g \in matched }

\* The value db_update_grade returns: False when the UPDATE raised; an
\* UPDATE that matches no row raises nothing.
db_update_grade_result(student_id, subject_id) ==
    Cardinality({ g \in grades : /\ g.student_id = student_id
                                  /\ g.subject_id = subject_id }) <= 1

\* DELETE FROM grades WHERE student_id = ? AND subject_id = ? AND
\* semester = ?.
db_del_grade(student_id, subject_id, semester) ==
    grades' = grades \ grade_rows(student_id, subject_id, semester)

\* DELETE FROM students WHERE id = ?.  The connection never turns
\* foreign_keys on, so ON DELETE CASCADE of the grades table does not run.
db_del_student(student_id) ==
    /\ students' = students \ {student_id}
    /\ grades' = grades

\* db_add_subject on a table whose code column is not UNIQUE.
db_add_subject_without_unique(semester, code, prerequisite) ==
    /\ subjects' = subjects \cup { Subject(seq + 1, semester, code,
                                           prerequisite) }
    /\ seq' = seq + 1

\* INSERT INTO subjects: fails on UNIQUE (code), else adds the row under
\* the next AUTOINCREMENT id.  The prerequisite is stored as given:
\* foreign keys are off.
db_add_subject(semester, code, prerequisite) ==
    IF \E s \in subjects : s.code = code
    THEN subjects' = subjects /\ seq' = seq
    ELSE /\ subjects' = subjects \cup { Subject(seq + 1, semester, code,
                                                prerequisite) }
         /\ seq' = seq + 1

\* The value db_add_subject returns: False when the INSERT raised.
db_add_subject_result(code) == ~ \E s \in subjects : s.code = code

\* UPDATE subjects SET ... WHERE id = ?: fails on UNIQUE (code) when the
\* row exists and another row holds the code, else rewrites the row; an
\* UPDATE that matches no row raises nothing.
db_edit_subject(id, semester, code, prerequisite) ==
    IF /\ \E s \in subjects : s.id = id
       /\ \E s \in subjects : s.id # id /\ s.code = code
    THEN subjects' = subjects
    ELSE subjects' = { IF s.id = id
                       THEN Subject(id, semester, code, prerequisite)
                       ELSE s : s \in subjects }

\* The value db_edit_subject returns: False when the UPDATE raised.
db_edit_subject_result(id, code) ==
    ~ (/\ \E s \in subjects : s.id = id
       /\ \E s \in subjects : s.id # id /\ s.code = code)

\* DELETE FROM subjects WHERE id = ?.  Neither ON DELETE CASCADE of the
\* grades table nor ON DELETE SET NULL of subjects.prerequisite runs.
db_del_subject(subject_id) ==
    /\ subjects' = { s \in subjects : s.id # subject_id }
    /\ grades' = grades

(***************************************************************************)
(* Return value of the last direct call, or response of the last request.  *)
(***************************************************************************)
NoRet == [op |-> "none", student_id |-> 0, subject_id |-> 0, semester |-> 0,
          result |-> "none"]

Ret(op, student_id, subject_id, semester, result) ==
    [op |-> op, student_id |-> student_id, subject_id |-> subject_id,
     semester |-> semester, result |-> result]

Bool(b) == IF b THEN "True" ELSE "False"

\* The response of a request: the page of the student it leads to and the
\* alert it shows.
Response(op, student_id, alert) == Ret(op, student_id, 0, 0, alert)

(***************************************************************************)
(* Requests of the presentation layer.                                     *)
(***************************************************************************)
\* POST /add_grade/<student_id>
add_grade(student_id, subject_id, semester, coursework, final, attended_final, is_finalized) ==
    /\ IF db_get_student_by_id(student_id) = {}
       THEN /\ grades' = grades
            /\ ret' = Response("add_grade", student_id, "redirect students")
       ELSE \E ok \in db_check_prerequisite(student_id, subject_id, semester) :
              IF ~ok
              THEN /\ grades' = grades
                   /\ ret' = Response("add_grade", student_id,
                                      "Cannot add grades")
              ELSE /\ db_add_grade(student_id, subject_id, semester,
                                   coursework, final, attended_final,
                                   is_finalized)
                   /\ ret' = Response("add_grade", student_id,
                         IF db_add_grade_result(student_id, subject_id,
                                                semester)
                         THEN "Grade added successfully!"
                         ELSE "Failed to add grade")
    /\ UNCHANGED <<students, subjects, now, seq>>

\* POST /update_grade/<student_id>/<subject_id>
update_grade(student_id, subject_id, semester, coursework, final, attended_final, is_finalized) ==
    /\ db_update_grade(student_id, subject_id, semester, coursework, final,
                       attended_final, is_finalized)
    /\ ret' = Response("update_grade", student_id, "redirect grades")
    /\ UNCHANGED <<students, subjects, now, seq>>

\* delete_grade deleting the row before it looks at the gate.
delete_grade_before_gate(student_id, subject_id, semester) ==
    /\ db_del_grade(student_id, subject_id, semester)
    /\ ret' = Response("delete_grade", student_id,
                IF ~db_check_is_prerequisite_for_later_semester(
                        student_id, subject_id, semester)
                THEN "Cannot delete grade"
                ELSE "Grade deleted successfully!")
    /\ UNCHANGED <<students, subjects, now, seq>>

\* POST /delete_grade/<student_id>/<subject_id>/<semester>
delete_grade(student_id, subject_id, semester) ==
    /\ IF ~db_check_is_prerequisite_for_later_semester(student_id, subject_id,
                                                       semester)
       THEN /\ grades' = grades
            /\ ret' = Response("delete_grade", student_id,
                               "Cannot delete grade")
       ELSE /\ db_del_grade(student_id, subject_id, semester)
            /\ ret' = Response("delete_grade", student_id,
                               "Grade deleted successfully!")
    /\ UNCHANGED <<students, subjects, now, seq>>

\* check_prerequisite removing the failed prerequisite rows it has read.
check_prerequisite_removing_rows(student_id, subject_id, semester) ==
    /\ \E ok \in db_check_prerequisite(student_id, subject_id, semester) :
         ret' = Ret("db_check_prerequisite", student_id, subject_id, semester,
                    Bool(ok))
    /\ grades' = { g \in grades : g.student_id # student_id
                                    \/ is_failed(g) = "no" }
    /\ UNCHANGED <<students, subjects, now, seq>>

\* POST /delete_student/<student_id>: the value of db_del_student is not
\* looked at.
delete_student(student_id) ==
    /\ db_del_student(student_id)
    /\ ret' = Response("delete_student", student_id, "deleted successfully!")
    /\ UNCHANGED <<subjects, now, seq>>

\* POST /delete_subject/<subject_id>
delete_subject(subject_id) ==
    /\ db_del_subject(subject_id)
    /\ ret' = Ret("delete_subject", 0, subject_id, 0, "deleted successfully!")
    /\ UNCHANGED <<students, now, seq>>

\* The response of a catalog request: the subject id of the route, the
\* code of the form and the alert shown.
SubjectResponse(op, subject_id, code, alert) ==
    [op |-> op, student_id |-> 0, subject_id |-> subject_id, semester |-> 0,
     result |-> alert, code |-> code]

\* POST /add_subject
add_subject(semester, code, prerequisite) ==
    /\ db_add_subject(semester, code, prerequisite)
    /\ ret' = SubjectResponse("add_subject", 0, code,
                  IF db_add_subject_result(code)
                  THEN "Subject added successfully!"
                  ELSE "Failed to add subject")
    /\ UNCHANGED <<students, grades, now>>

\* POST /edit_subject/<subject_id>
edit_subject(subject_id, semester, code, prerequisite) ==
    /\ db_edit_subject(subject_id, semester, code, prerequisite)
    /\ ret' = SubjectResponse("edit_subject", subject_id, code,
                  IF db_edit_subject_result(subject_id, code)
                  THEN "Subject updated successfully!"
                  ELSE "Failed to update subject")
    /\ UNCHANGED <<students, grades, now, seq>>

(***************************************************************************)
(* Direct calls of the two gates: they read the store and return.          *)
(***************************************************************************)
check_prerequisite(student_id, subject_id, semester) ==
    /\ \E ok \in db_check_prerequisite(student_id, subject_id, semester) :
         ret' = Ret("db_check_prerequisite", student_id, subject_id, semester,
                    Bool(ok))
    /\ UNCHANGED <<students, subjects, grades, now, seq>>

check_is_prerequisite_for_later_semester(student_id, subject_id, semester) ==
    /\ ret' = Ret("db_check_is_prerequisite_for_later_semester", student_id,
                  subject_id, semester,
                  Bool(db_check_is_prerequisite_for_later_semester(
                           student_id, subject_id, semester)))
    /\ UNCHANGED <<students, subjects, grades, now, seq>>

\* A direct call of Grade.is_failed on a stored row.
call_is_failed(g) ==
    /\ ret' = Ret("is_failed", g.student_id, g.subject_id, g.semester,
                  is_failed(g))
    /\ UNCHANGED <<students, subjects, grades, now, seq>>

(***************************************************************************)
(* Spec: the grade requests and the gates on a fixed catalog, from an      *)
(* empty grades table.  One operation runs at a time: a call starts when   *)
(* the value of the previous one was taken.                                *)
(***************************************************************************)
Init ==
    /\ now = 0
    /\ seq = 3
    /\ students = StudentIds
    /\ subjects \in Catalogs
    /\ grades = {}
    /\ ret = NoRet
    /\ pc = 0

\* No call is in progress: the value of the last call was taken, the
\* response of the last request was sent.
Idle == ret = NoRet

\* The caller takes the returned value, the browser the response.
Return ==
    /\ ret # NoRet
    /\ ret' = NoRet
    /\ UNCHANGED <<students, subjects, grades, pc, now, seq>>

AddGrade ==
    /\ Idle
    /\ Cardinality(grades) < MaxRows
    /\ \E student_id \in StudentIds, subject_id \in SubjectIds,
          semester \in Semesters, f \in FormValues :
           add_grade(student_id, subject_id, semester, f[1], f[2], f[3], f[4])
    /\ UNCHANGED pc

UpdateGrade ==
    /\ Idle
    /\ \E student_id \in StudentIds, subject_id \in SubjectIds,
          semester \in Semesters, f \in FormValues :
           update_grade(student_id, subject_id, semester, f[1], f[2], f[3],
                        f[4])
    /\ UNCHANGED pc

DeleteGrade ==
    /\ Idle
    /\ \E student_id \in StudentIds, subject_id \in SubjectIds,
          semester \in Semesters :
           delete_grade(student_id, subject_id, semester)
    /\ UNCHANGED pc

CheckPrerequisite ==
    /\ Idle
    /\ \E student_id \in StudentIds, subject_id \in SubjectIds,
          semester \in Semesters :
           check_prerequisite(student_id, subject_id, semester)
    /\ UNCHANGED pc

CheckIsPrerequisiteForLaterSemester ==
    /\ Idle
    /\ \E student_id \in StudentIds, subject_id \in SubjectIds,
          semester \in Semesters :
           check_is_prerequisite_for_later_semester(student_id, subject_id,
                                                    semester)
    /\ UNCHANGED pc

Next ==
    \/ AddGrade
    \/ UpdateGrade
    \/ DeleteGrade
    \/ CheckPrerequisite
    \/ CheckIsPrerequisiteForLaterSemester
    \/ Return

Spec == Init /\ [][Next]_vars

(***************************************************************************)
(* SpecGated: the catalog is fixed and the grades table changes only by    *)
(* add_grade and delete_grade, each behind its gate.                       *)
(***************************************************************************)
NextGated ==
    \/ AddGrade
    \/ DeleteGrade
    \/ Return

SpecGated == Init /\ [][NextGated]_vars

(***************************************************************************)
(* SpecLedger: direct calls of db_add_grade, db_update_grade and           *)
(* db_del_grade for one student while the clock advances; ret holds the    *)
(* arguments and the value returned.                                       *)
(***************************************************************************)
LedgerStudentIds == {1}
LedgerSubjectIds == {1, 2}
LedgerSemesters == {1, 2, 3}
LedgerValues == { <<20, 60, 1, 1>>, <<12, 60, 1, 0>> }

InitLedger ==
    /\ now = 0
    /\ seq = 3
    /\ students = StudentIds
    /\ subjects = ChainCatalog
    /\ grades = {}
    /\ ret = NoRet
    /\ pc = 0

\* CURRENT_TIMESTAMP moves on between two statements.
Tick ==
    /\ now < MaxClock
    /\ now' = now + 1
    /\ UNCHANGED <<students, subjects, grades, ret, pc, seq>>

LedgerAddGrade ==
    /\ Idle
    /\ \E student_id \in LedgerStudentIds, subject_id \in LedgerSubjectIds,
          semester \in LedgerSemesters, v \in LedgerValues :
           /\ \/ Cardinality(grades) < MaxRows
              \/ grade_rows(student_id, subject_id, semester) # {}
           /\ db_add_grade(student_id, subject_id, semester,
                           v[1], v[2], v[3], v[4])
           /\ ret' = Ret("db_add_grade", student_id, subject_id, semester,
                         Bool(db_add_grade_result(student_id, subject_id,
                                                  semester)))
    /\ UNCHANGED <<students, subjects, pc, now, seq>>

LedgerUpdateGrade ==
    /\ Idle
    /\ \E student_id \in LedgerStudentIds, subject_id \in LedgerSubjectIds,
          semester \in LedgerSemesters, v \in LedgerValues :
           /\ db_update_grade(student_id, subject_id, semester,
                              v[1], v[2], v[3], v[4])
           /\ ret' = Ret("db_update_grade", student_id, subject_id, semester,
                         Bool(db_update_grade_result(student_id, subject_id)))
    /\ UNCHANGED <<students, subjects, pc, now, seq>>

LedgerDelGrade ==
    /\ Idle
    /\ \E student_id \in LedgerStudentIds, subject_id \in LedgerSubjectIds,
          semester \in LedgerSemesters :
           /\ db_del_grade(student_id, subject_id, semester)
           /\ ret' = Ret("db_del_grade", student_id, subject_id, semester,
                         "True")
    /\ UNCHANGED <<students, subjects, pc, now, seq>>

NextLedger ==
    \/ LedgerAddGrade
    \/ LedgerUpdateGrade
    \/ LedgerDelGrade
    \/ Tick
    \/ Return

SpecLedger == InitLedger /\ [][NextLedger]_vars

(***************************************************************************)
(* SpecCascade: grades are added and deleted by request while students and *)
(* subjects are deleted.                                                   *)
(***************************************************************************)
CascadeValues == { <<20, 60, 1, 1>> }

InitCascade ==
    /\ now = 0
    /\ seq = 3
    /\ students = StudentIds
    /\ subjects = ChainCatalog
    /\ grades = {}
    /\ ret = NoRet
    /\ pc = 0

CascadeAddGrade ==
    /\ Idle
    /\ Cardinality(grades) < MaxRows
    /\ \E student_id \in StudentIds, subject_id \in SubjectIds,
          semester \in Semesters, v \in CascadeValues :
           add_grade(student_id, subject_id, semester, v[1], v[2], v[3], v[4])
    /\ UNCHANGED pc

DeleteStudent ==
    /\ Idle
    /\ \E student_id \in StudentIds : delete_student(student_id)
    /\ UNCHANGED pc

DeleteSubject ==
    /\ Idle
    /\ \E subject_id \in SubjectIds : delete_subject(subject_id)
    /\ UNCHANGED pc

NextCascade ==
    \/ CascadeAddGrade
    \/ DeleteGrade
    \/ DeleteStudent
    \/ DeleteSubject
    \/ Return

SpecCascade == InitCascade /\ [][NextCascade]_vars

(***************************************************************************)
(* SpecCatalog: subjects are created, edited and deleted by request, from  *)
(* the empty catalog.                                                      *)
(***************************************************************************)
Codes == { "A", "B", "C" }
CatalogSemesters == {1}
Prerequisites == {NULL} \cup (1..MaxSubjectId)

InitCatalog ==
    /\ now = 0
    /\ seq = 0
    /\ students = StudentIds
    /\ subjects = {}
    /\ grades = {}
    /\ ret = NoRet
    /\ pc = 0

AddSubject ==
    /\ Idle
    /\ seq < MaxSubjectId
    /\ \E semester \in CatalogSemesters, code \in Codes,
          prerequisite \in Prerequisites :
           add_subject(semester, code, prerequisite)
    /\ UNCHANGED pc

EditSubject ==
    /\ Idle
    /\ \E subject_id \in 1..MaxSubjectId, semester \in CatalogSemesters,
          code \in Codes, prerequisite \in Prerequisites :
           edit_subject(subject_id, semester, code, prerequisite)
    /\ UNCHANGED pc

CatalogDeleteSubject ==
    /\ Idle
    /\ \E subject_id \in 1..MaxSubjectId : delete_subject(subject_id)
    /\ UNCHANGED pc

NextCatalog ==
    \/ AddSubject
    \/ EditSubject
    \/ CatalogDeleteSubject
    \/ Return

SpecCatalog == InitCatalog /\ [][NextCatalog]_vars

(***************************************************************************)
(* SpecFault: direct calls of db_add_grade and of the two gates on a store *)
(* whose accesses may fail (the database cannot be opened, a statement     *)
(* raises).  failing is the access of the call that fails: 0 for none,     *)
(* 1 for the first, 2 for the second.  A failed statement is rolled back.  *)
(***************************************************************************)
FaultStudentIds == {1}
FaultValues == { <<20, 60, 1, 1>>, <<12, 60, 1, 1>> }
Failing == {0, 1, 2}

\* The value returned, or "raise" when an exception leaves the call, and
\* whether an access to the store failed during the call.
Outcome(result, failed) == [result |-> result, failed |-> failed]

FaultRet(op, student_id, subject_id, semester, outcome) ==
    [op |-> op, student_id |-> student_id, subject_id |-> subject_id,
     semester |-> semester, result |-> outcome.result,
     failed |-> outcome.failed]

\* db_add_grade: the INSERT is inside try/except, a failure returns False.
db_add_grade_on(failing, student_id, subject_id, semester) ==
    IF failing = 1
    THEN { Outcome("False", TRUE) }
    ELSE { Outcome(Bool(db_add_grade_result(student_id, subject_id,
                                            semester)), FALSE) }

\* db_check_prerequisite: the first access is db_get_subject_by_id, which
\* returns None when it fails, and None makes the gate return True; the
\* second access is the gate's own query, outside any try/except.
db_check_prerequisite_on(failing, student_id, subject_id, semester) ==
    IF failing = 1
    THEN { Outcome("True", TRUE) }
    ELSE IF \A s \in db_get_subject_by_id(subject_id) : s.prerequisite = NULL
         THEN { Outcome("True", FALSE) }
         ELSE IF failing = 2
              THEN { Outcome("raise", TRUE) }
              ELSE { Outcome(Bool(ok), FALSE) :
                       ok \in db_check_prerequisite(student_id, subject_id,
                                                    semester) }

\* db_check_is_prerequisite_for_later_semester: both queries run outside
\* any try/except; the second runs only when a subject depends on this one.
db_check_is_prerequisite_for_later_semester_on(failing, student_id, subject_id, semester) ==
    IF failing = 1
    THEN { Outcome("raise", TRUE) }
    ELSE IF ~ \E s \in subjects : s.prerequisite = subject_id
         THEN { Outcome("True", FALSE) }
         ELSE IF failing = 2
              THEN { Outcome("raise", TRUE) }
              ELSE { Outcome(Bool(db_check_is_prerequisite_for_later_semester(
                                      student_id, subject_id, semester)),
                             FALSE) }

InitFault ==
    /\ now = 0
    /\ seq = 3
    /\ students = StudentIds
    /\ subjects \in Catalogs
    /\ grades = {}
    /\ ret = NoRet
    /\ pc = 0

FaultAddGrade ==
    /\ Idle
    /\ Cardinality(grades) < MaxRows
    /\ \E failing \in {0, 1}, student_id \in FaultStudentIds,
          subject_id \in SubjectIds, semester \in Semesters,
          v \in FaultValues :
           /\ IF failing = 1
              THEN grades' = grades
              ELSE db_add_grade(student_id, subject_id, semester,
                                v[1], v[2], v[3], v[4])
           /\ \E o \in db_add_grade_on(failing, student_id, subject_id,
                                       semester) :
                ret' = FaultRet("db_add_grade", student_id, subject_id,
                                semester, o)
    /\ UNCHANGED <<students, subjects, pc, now, seq>>

FaultCheckPrerequisite ==
    /\ Idle
    /\ \E failing \in Failing, student_id \in FaultStudentIds,
          subject_id \in SubjectIds, semester \in Semesters :
         \E o \in db_check_prerequisite_on(failing, student_id, subject_id,
                                           semester) :
           ret' = FaultRet("db_check_prerequisite", student_id, subject_id,
                           semester, o)
    /\ UNCHANGED <<students, subjects, grades, pc, now, seq>>

FaultCheckIsPrerequisiteForLaterSemester ==
    /\ Idle
    /\ \E failing \in Failing, student_id \in FaultStudentIds,
          subject_id \in SubjectIds, semester \in Semesters :
         \E o \in db_check_is_prerequisite_for_later_semester_on(
                      failing, student_id, subject_id, semester) :
           ret' = FaultRet("db_check_is_prerequisite_for_later_semester",
                           student_id, subject_id, semester, o)
    /\ UNCHANGED <<students, subjects, grades, pc, now, seq>>

NextFault ==
    \/ FaultAddGrade
    \/ FaultCheckPrerequisite
    \/ FaultCheckIsPrerequisiteForLaterSemester
    \/ Return

SpecFault == InitFault /\ [][NextFault]_vars

(***************************************************************************)
(* SpecUnknown: the catalog holds subjects 1 and 2 and the roster student  *)
(* 1; every add_grade request names a subject id that is not in the        *)
(* catalog, and the gate is called directly for known and unknown ids.     *)
(***************************************************************************)
UnknownSubjectIds == {3, 4}
UnknownValues == { <<20, 60, 1, 1>>, <<12, 60, 1, 0>> }
UnknownCatalog == { Subject(1, 1, "A", NULL), Subject(2, 2, "B", 1) }

InitUnknown ==
    /\ now = 0
    /\ seq = 2
    /\ students = {1}
    /\ subjects = UnknownCatalog
    /\ grades = {}
    /\ ret = NoRet
    /\ pc = 0

UnknownAddGrade ==
    /\ Idle
    /\ \E student_id \in StudentIds, subject_id \in UnknownSubjectIds,
          semester \in Semesters, v \in UnknownValues :
           /\ \/ Cardinality(grades) < MaxRows
              \/ grade_rows(student_id, subject_id, semester) # {}
           /\ add_grade(student_id, subject_id, semester,
                        v[1], v[2], v[3], v[4])
    /\ UNCHANGED pc

UnknownCheckPrerequisite ==
    /\ Idle
    /\ \E student_id \in StudentIds,
          subject_id \in SubjectIds \cup UnknownSubjectIds,
          semester \in Semesters :
           check_prerequisite(student_id, subject_id, semester)
    /\ UNCHANGED pc

UnknownDeleteGrade ==
    /\ Idle
    /\ \E student_id \in StudentIds, subject_id \in UnknownSubjectIds,
          semester \in Semesters :
           delete_grade(student_id, subject_id, semester)
    /\ UNCHANGED pc

NextUnknown ==
    \/ UnknownAddGrade
    \/ UnknownCheckPrerequisite
    \/ UnknownDeleteGrade
    \/ Return

SpecUnknown == InitUnknown /\ [][NextUnknown]_vars

(***************************************************************************)
(* SpecRace: two callers are served at the same time, caller "a" posting   *)
(* one add_grade and caller "b" one delete_grade for the same student.     *)
(* Each db_ function opens its own connection and commits on its own, so   *)
(* a request is two steps: the gate, then the write.  ret[c] holds the     *)
(* request of caller c and the value its gate returned, then its alert;    *)
(* pc[c] is the caller's position, and pc.overlapped records that a gate   *)
(* ran while the other caller stood between its gate and its write.        *)
(***************************************************************************)
RaceStudentId == 1
RaceValues == { <<20, 60, 1, 1>>, <<12, 60, 1, 1>> }

Other(c) == IF c = "a" THEN "b" ELSE "a"

InitRace ==
    /\ now = 0
    /\ seq = 3
    /\ students = StudentIds
    /\ subjects \in Catalogs
    /\ \E semester \in Semesters, v \in RaceValues :
         grades = { Grade(RaceStudentId, 1, semester, v[1], v[2], v[3], v[4]) }
    /\ \E add_subject_id \in SubjectIds, add_semester \in Semesters,
          del_subject_id \in SubjectIds, del_semester \in Semesters :
         ret = [a |-> Ret("add_grade", RaceStudentId, add_subject_id,
                          add_semester, "none"),
                b |-> Ret("delete_grade", RaceStudentId, del_subject_id,
                          del_semester, "none")]
    /\ pc = [a |-> "start", b |-> "start", overlapped |-> FALSE]

\* The gate of caller c has returned result.
Checked(c, result) ==
    /\ pc[c] = "start"
    /\ ret' = [ret EXCEPT ![c].result = result]
    /\ pc' = [pc EXCEPT ![c] = "checked",
                        !.overlapped = @ \/ pc[Other(c)] = "checked"]

\* The request of caller c ends with alert.
Responded(c, alert) ==
    /\ pc[c] = "checked"
    /\ ret' = [ret EXCEPT ![c].result = alert]
    /\ pc' = [pc EXCEPT ![c] = "done"]

\* add_grade up to the return of db_check_prerequisite.
RaceAddCheck ==
    /\ \E ok \in db_check_prerequisite(ret.a.student_id, ret.a.subject_id,
                                       ret.a.semester) :
         Checked("a", Bool(ok))
    /\ UNCHANGED <<students, subjects, grades, now, seq>>

\* add_grade from the test of the gate's value to the response.
RaceAddWrite ==
    /\ IF ret.a.result = "False"
       THEN grades' = grades /\ Responded("a", "Cannot add grades")
       ELSE /\ db_add_grade(ret.a.student_id, ret.a.subject_id,
                            ret.a.semester, 20, 60, 1, 1)
            /\ Responded("a", IF db_add_grade_result(ret.a.student_id,
                                                     ret.a.subject_id,
                                                     ret.a.semester)
                              THEN "Grade added successfully!"
                              ELSE "Failed to add grade")
    /\ UNCHANGED <<students, subjects, now, seq>>

\* delete_grade up to the return of
\* db_check_is_prerequisite_for_later_semester.
RaceDeleteCheck ==
    /\ Checked("b", Bool(db_check_is_prerequisite_for_later_semester(
                             ret.b.student_id, ret.b.subject_id,
                             ret.b.semester)))
    /\ UNCHANGED <<students, subjects, grades, now, seq>>

\* delete_grade from the test of the gate's value to the response.
RaceDeleteWrite ==
    /\ IF ret.b.result = "False"
       THEN grades' = grades /\ Responded("b", "Cannot delete grade")
       ELSE /\ db_del_grade(ret.b.student_id, ret.b.subject_id,
                            ret.b.semester)
            /\ Responded("b", "Grade deleted successfully!")
    /\ UNCHANGED <<students, subjects, now, seq>>

NextRace ==
    \/ RaceAddCheck
    \/ RaceAddWrite
    \/ RaceDeleteCheck
    \/ RaceDeleteWrite

SpecRace == InitRace /\ [][NextRace]_vars

(***************************************************************************)
(* SpecOutcome: Grade.is_failed applied to one stored grade whose scores   *)
(* and flags range over every combination.                                 *)
(***************************************************************************)
InitOutcome ==
    /\ now = 0
    /\ seq = 3
    /\ students = StudentIds
    /\ subjects = ChainCatalog
    /\ \E coursework \in 0..MaxScore, final \in 0..MaxScore,
          attended_final \in {0, 1}, is_finalized \in {0, 1} :
           grades = { Grade(1, 1, 1, coursework, final, attended_final,
                            is_finalized) }
    /\ ret = NoRet
    /\ pc = 0

IsFailed ==
    /\ \E g \in grades : call_is_failed(g)
    /\ UNCHANGED pc

NextOutcome == IsFailed

SpecOutcome == InitOutcome /\ [][NextOutcome]_vars

(***************************************************************************)
(* SpecScenario: the walk-through of the progression rules.  Subject A     *)
(* (id 1, semester 1, no prerequisite), subject B (id 2, semester 2,       *)
(* prerequisite A), student X (id 1) without grades; the other student     *)
(* may hold a grade of their own.  pc counts the steps taken.              *)
(***************************************************************************)
ScenarioCatalog == { Subject(1, 1, "A", NULL), Subject(2, 2, "B", 1) }

InitScenario ==
    /\ now = 0
    /\ seq = 2
    /\ students = StudentIds
    /\ subjects = ScenarioCatalog
    /\ \/ grades = {}
       \/ \E subject_id \in {1, 2}, semester \in Semesters, f \in FormValues :
            grades = { Grade(2, subject_id, semester, f[1], f[2], f[3], f[4]) }
    /\ ret = NoRet
    /\ pc = 0

Step(n) == pc = n /\ pc' = n + 1

ScenarioCheckAddBefore == Step(0) /\ check_prerequisite(1, 2, 2)

ScenarioAddA == Step(1) /\ add_grade(1, 1, 1, 20, 60, 1, 1)

ScenarioOutcomeA ==
    Step(2) /\ \E g \in grade_rows(1, 1, 1) : call_is_failed(g)

ScenarioCheckAddAfter == Step(3) /\ check_prerequisite(1, 2, 2)

ScenarioAddB ==
    Step(4) /\ \E f \in FormValues : add_grade(1, 2, 2, f[1], f[2], f[3], f[4])

ScenarioCheckDeleteBlocked ==
    Step(5) /\ check_is_prerequisite_for_later_semester(1, 1, 1)

ScenarioDeleteB == Step(6) /\ delete_grade(1, 2, 2)

ScenarioCheckDeleteAllowed ==
    Step(7) /\ check_is_prerequisite_for_later_semester(1, 1, 1)

NextScenario ==
    \/ ScenarioCheckAddBefore
    \/ ScenarioAddA
    \/ ScenarioOutcomeA
    \/ ScenarioCheckAddAfter
    \/ ScenarioAddB
    \/ ScenarioCheckDeleteBlocked
    \/ ScenarioDeleteB
    \/ ScenarioCheckDeleteAllowed

SpecScenario == InitScenario /\ [][NextScenario]_vars

(***************************************************************************)
(* Vocabulary of the properties.                                           *)
(***************************************************************************)
\* The catalog's prerequisite of a subject, NULL when it has none.
PrerequisiteOf(subject_id) ==
    IF \E s \in subjects : s.id = subject_id
    THEN (CHOOSE s \in subjects : s.id = subject_id).prerequisite
    ELSE NULL

\* The outcome "passed": finalized, coursework at the floor or above, final
\* attended, combined score 50 or more.
Passed(g) ==
    /\ g.is_finalized = 1
    /\ g.coursework >= 13
    /\ g.attended_final = 1
    /\ g.coursework + g.final >= 50

\* The student's rows for the prerequisite of the subject at a semester
\* strictly before the given one.
EarlierPrerequisiteRows(student_id, subject_id, semester) ==
    { g \in grades : /\ g.student_id = student_id
                     /\ g.subject_id = PrerequisiteOf(subject_id)
                     /\ g.semester < semester }

\* The student's rows for the prerequisite of the subject at any semester.
AllPrerequisiteRows(student_id, subject_id) ==
    { g \in grades : /\ g.student_id = student_id
                     /\ g.subject_id = PrerequisiteOf(subject_id) }

MostRecent(rows) == CHOOSE g \in rows : \A h \in rows : h.semester <= g.semester

\* The last call was canAddGrade / canDeleteGrade / outcome.
CalledCanAdd == ret.op = "db_check_prerequisite"

CalledCanDelete == ret.op = "db_check_is_prerequisite_for_later_semester"

CalledOutcome == ret.op = "is_failed"

\* The rows the last canAddGrade call could count.
RetEarlierRows ==
    EarlierPrerequisiteRows(ret.student_id, ret.subject_id, ret.semester)

(***************************************************************************)
(* C1: every stored grade of a subject that has a prerequisite P, at       *)
(* semester t, is backed by a grade of the same student for P at a         *)
(* semester before t whose outcome is passed.                              *)
(***************************************************************************)
C1_GradedOnlyAfterPassedPrerequisite ==
    \A g \in grades :
        PrerequisiteOf(g.subject_id) # NULL =>
            \E h \in EarlierPrerequisiteRows(g.student_id, g.subject_id,
                                             g.semester) : Passed(h)

(***************************************************************************)
(* C2: canAddGrade returns true whenever the student holds at least one    *)
(* passed grade of the prerequisite at an earlier semester, whatever other *)
(* rows of the prerequisite the student holds.                             *)
(***************************************************************************)
C2_PassedEarlierRowSuffices ==
    (/\ CalledCanAdd
     /\ PrerequisiteOf(ret.subject_id) # NULL
     /\ \E g \in RetEarlierRows : Passed(g))
        => ret.result = "True"

(***************************************************************************)
(* C3: with several earlier rows of the prerequisite, canAddGrade decides  *)
(* on the one with the greatest semester: true if that row is passed,      *)
(* false if it is not.                                                     *)
(***************************************************************************)
C3_DecidesOnMostRecentRow ==
    (/\ CalledCanAdd
     /\ PrerequisiteOf(ret.subject_id) # NULL
     /\ Cardinality(RetEarlierRows) >= 2)
        => ret.result = Bool(Passed(MostRecent(RetEarlierRows)))

(***************************************************************************)
(* C4: when the only earlier row of the prerequisite is not finalized,     *)
(* canAddGrade returns false.                                              *)
(***************************************************************************)
C4_NotFinalizedPrerequisiteRejected ==
    (/\ CalledCanAdd
     /\ PrerequisiteOf(ret.subject_id) # NULL
     /\ Cardinality(RetEarlierRows) = 1
     /\ \A g \in RetEarlierRows : g.is_finalized = 0)
        => ret.result = "False"

(***************************************************************************)
(* C5: canAddGrade returns false when the subject has a prerequisite and   *)
(* the student holds no row of it at an earlier semester, even when the    *)
(* student holds passed rows of it at the same or a later semester.        *)
(***************************************************************************)
C5_NoEarlierRowRejected ==
    (/\ CalledCanAdd
     /\ PrerequisiteOf(ret.subject_id) # NULL
     /\ RetEarlierRows = {})
        => ret.result = "False"

C5_Witness ==
    /\ CalledCanAdd
    /\ PrerequisiteOf(ret.subject_id) # NULL
    /\ RetEarlierRows = {}
    /\ \E g \in AllPrerequisiteRows(ret.student_id, ret.subject_id) :
         g.semester = ret.semester /\ Passed(g)
    /\ \E g \in AllPrerequisiteRows(ret.student_id, ret.subject_id) :
         g.semester > ret.semester /\ Passed(g)
    /\ ret.result = "False"

(***************************************************************************)
(* C6: canAddGrade returns true for a catalog subject that has no          *)
(* prerequisite, for every student and semester, whatever the ledger       *)
(* holds.                                                                  *)
(***************************************************************************)
C6_NoPrerequisiteAccepted ==
    (/\ CalledCanAdd
     /\ \E s \in subjects : s.id = ret.subject_id /\ s.prerequisite = NULL)
        => ret.result = "True"

C6_Witness ==
    /\ CalledCanAdd
    /\ \E s \in subjects : s.id = ret.subject_id /\ s.prerequisite = NULL
    /\ \A g \in grades : g.student_id # ret.student_id
    /\ grades # {}
    /\ ret.result = "True"

(***************************************************************************)
(* C7: canDeleteGrade returns false if and only if the student holds, at a *)
(* later semester, a grade of a subject whose prerequisite is the given    *)
(* subject; dependents of dependents do not count.                         *)
(***************************************************************************)
C7_DeleteBlockedIffDirectDependentLater ==
    CalledCanDelete =>
        (ret.result = "False" <=>
            \E g \in grades :
                /\ g.student_id = ret.student_id
                /\ g.semester > ret.semester
                /\ PrerequisiteOf(g.subject_id) = ret.subject_id)

C7_Witness ==
    /\ CalledCanDelete
    /\ \E g \in grades :
         /\ g.student_id = ret.student_id
         /\ g.semester > ret.semester
         /\ PrerequisiteOf(g.subject_id) # NULL
         /\ PrerequisiteOf(PrerequisiteOf(g.subject_id)) = ret.subject_id
    /\ \E g \in grades :
         /\ g.student_id = ret.student_id
         /\ g.semester <= ret.semester
         /\ PrerequisiteOf(g.subject_id) = ret.subject_id
    /\ ret.result = "True"

(***************************************************************************)
(* C8: for a finalized grade the outcome is failed-coursework iff          *)
(* coursework < 13; otherwise failed-final-absence if the final was not    *)
(* attended; otherwise failed-final-score if coursework + final < 50;      *)
(* otherwise passed.  The first reason in this order is the one reported.  *)
(***************************************************************************)
C8_OutcomePriority ==
    CalledOutcome =>
        \A g \in grade_rows(ret.student_id, ret.subject_id, ret.semester) :
            g.is_finalized = 1 =>
                /\ ret.result = "coursework" <=> g.coursework < 13
                /\ (g.coursework >= 13 /\ g.attended_final = 0)
                      => ret.result = "final_attendance"
                /\ (/\ g.coursework >= 13
                    /\ g.attended_final = 1
                    /\ g.coursework + g.final < 50) => ret.result = "final"
                /\ (/\ g.coursework >= 13
                    /\ g.attended_final = 1
                    /\ g.coursework + g.final >= 50) => ret.result = "no"

C8_Witness ==
    /\ CalledOutcome
    /\ \E g \in grades :
         /\ g.is_finalized = 1
         /\ g.coursework < 13
         /\ g.attended_final = 0
         /\ g.coursework + g.final < 50
    /\ ret.result = "coursework"

(***************************************************************************)
(* C9: the outcome of a grade that is not finalized is not-finalized       *)
(* whatever its scores and attendance, and that value differs from the     *)
(* value passed of a finalized passing grade.                              *)
(***************************************************************************)
NotFinalizedValue == is_failed(Grade(1, 1, 1, 0, 0, 0, 0))

PassedValue == is_failed(Grade(1, 1, 1, 20, 60, 1, 1))

ScenarioRows == { g \in grades : g.student_id = 1 }

ScenarioGradeA == Grade(1, 1, 1, 20, 60, 1, 1)

C10_Scenario ==
    /\ pc = 0 => ScenarioRows = {}
    /\ pc = 1 => CalledCanAdd /\ ret.result = "False"
    /\ pc = 2 => ScenarioRows = {ScenarioGradeA}
    /\ pc = 3 => CalledOutcome /\ ret.result = "no" /\ Passed(ScenarioGradeA)
    /\ pc = 4 => CalledCanAdd /\ ret.result = "True"
    /\ pc = 5 => /\ ScenarioGradeA \in ScenarioRows
                 /\ Cardinality(ScenarioRows) = 2
                 /\ \E g \in ScenarioRows : g.subject_id = 2 /\ g.semester = 2
    /\ pc = 6 => CalledCanDelete /\ ret.result = "False"
    /\ pc = 7 => ScenarioRows = {ScenarioGradeA}
    /\ pc = 8 => CalledCanDelete /\ ret.result = "True"

C10_Witness ==
    /\ pc = 8
    /\ CalledCanDelete
    /\ ret.student_id = 1 /\ ret.subject_id = 1 /\ ret.semester = 1
    /\ ret.result = "True"
    /\ ScenarioRows = {ScenarioGradeA}
    /\ \E g \in grades : g.student_id = 2 /\ g.subject_id = 2 /\ g.semester > 1

(***************************************************************************)
(* C11: add_grade and delete_grade change the ledger only when their gate  *)
(* approved: a rejected request leaves the ledger as it was, a row is      *)
(* inserted only when canAddGrade could return true for it in the state    *)
(* before, and a row is deleted only when canDeleteGrade was true for it.  *)
(***************************************************************************)
C11_MutationOnlyAfterApproval ==
    [][ /\ (ret'.op = "add_grade" /\ ret'.result = "Cannot add grades")
              => grades' = grades
        /\ (ret'.op = "delete_grade" /\ ret'.result = "Cannot delete grade")
              => grades' = grades
        /\ ret'.op = "add_grade" =>
              /\ grades \subseteq grades'
              /\ \A g \in grades' \ grades :
                   TRUE \in db_check_prerequisite(g.student_id, g.subject_id,
                                                  g.semester)
        /\ ret'.op = "delete_grade" =>
              /\ grades' \subseteq grades
              /\ \A g \in grades \ grades' :
                   db_check_is_prerequisite_for_later_semester(
                       g.student_id, g.subject_id, g.semester) ]_vars

C11_Witness ==
    /\ ret.op = "delete_grade"
    /\ ret.result = "Cannot delete grade"
    /\ \E g, h \in grades :
         /\ g.student_id = ret.student_id
         /\ h.student_id = ret.student_id
         /\ PrerequisiteOf(h.subject_id) = g.subject_id
         /\ h.semester > g.semester

(***************************************************************************)
(* C12: the ledger holds at most one row per (student, subject, semester)  *)
(* in every reachable state; a student may hold several rows of one        *)
(* subject at different semesters.                                         *)
(***************************************************************************)
C12_OneRowPerTriple ==
    \A g, h \in grades :
        (/\ g.student_id = h.student_id
         /\ g.subject_id = h.subject_id
         /\ g.semester = h.semester) => g = h

C12_Witness ==
    /\ ret.op = "add_grade"
    /\ ret.result = "Grade added successfully!"
    /\ \E g, h \in grades :
         /\ g.student_id = ret.student_id
         /\ h.student_id = ret.student_id
         /\ g.subject_id = h.subject_id
         /\ g.semester # h.semester

(***************************************************************************)
(* C18: a call of canAddGrade or canDeleteGrade leaves the roster, the     *)
(* catalog and the ledger unchanged, whatever its arguments and result.    *)
(***************************************************************************)
C18_GatesHaveNoSideEffects ==
    [][ ret'.op \in { "db_check_prerequisite",
                      "db_check_is_prerequisite_for_later_semester" }
            => UNCHANGED <<students, subjects, grades>> ]_vars

C18_Witness ==
    /\ CalledCanAdd
    /\ ret.result = "False"
    /\ \E g \in grades : g.student_id = ret.student_id /\ is_failed(g) # "no"
    /\ \E g \in grades : g.student_id # ret.student_id

(***************************************************************************)
(* C20: with a fixed catalog and the grades table changed only by          *)
(* add_grade and delete_grade, every row for a subject with prerequisite P *)
(* at semester t has, for the same student, a row for P at a semester      *)
(* before t.                                                               *)
(***************************************************************************)
C20_DependentRowHasEarlierPrerequisiteRow ==
    \A g \in grades :
        PrerequisiteOf(g.subject_id) # NULL =>
            \E h \in grades :
                /\ h.student_id = g.student_id
                /\ h.subject_id = PrerequisiteOf(g.subject_id)
                /\ h.semester < g.semester

C20_Witness ==
    /\ ret.op = "delete_grade"
    /\ ret.result = "Cannot delete grade"
    /\ \E g \in grades :
         /\ g.student_id = ret.student_id
         /\ PrerequisiteOf(g.subject_id) # NULL
         /\ Cardinality(EarlierPrerequisiteRows(g.student_id, g.subject_id,
                                                g.semester)) = 1

\* The rows the last call named by its primary key, in the given table.
RowsOfCall(call, table) ==
    { g \in table : /\ g.student_id = call.student_id
                    /\ g.subject_id = call.subject_id
                    /\ g.semester = call.semester }

(***************************************************************************)
(* C13: db_add_grade for a triple that has a row returns False and leaves  *)
(* the grades table as it was, the scores, flags and timestamp of the      *)
(* existing row included; for a triple without a row it returns True and   *)
(* adds exactly that one row, stamped with the current time, and changes   *)
(* no other row.                                                           *)
(***************************************************************************)
C13_AddGradeDuplicateOrOneRow ==
    [][ (ret = NoRet /\ ret'.op = "db_add_grade") =>
          IF RowsOfCall(ret', grades) # {}
          THEN ret'.result = "False" /\ grades' = grades
          ELSE /\ ret'.result = "True"
               /\ grades \subseteq grades'
               /\ Cardinality(grades' \ grades) = 1
               /\ grades' \ grades = RowsOfCall(ret', grades')
               /\ \A g \in grades' \ grades : g.last_updated = now ]_vars

C13_Witness ==
    /\ ret.op = "db_add_grade"
    /\ ret.result = "False"
    /\ \E g \in RowsOfCall(ret, grades) : g.last_updated < now
    /\ grades \ RowsOfCall(ret, grades) # {}

(***************************************************************************)
(* C14: db_update_grade returns False when the grades table holds no row   *)
(* of the student and subject, and then leaves the table unchanged; it     *)
(* never returns True without having updated a row.                        *)
(***************************************************************************)
C14_UpdateWithoutRowFails ==
    [][ (ret = NoRet /\ ret'.op = "db_update_grade") =>
          LET matched == { g \in grades :
                             /\ g.student_id = ret'.student_id
                             /\ g.subject_id = ret'.subject_id }
          IN  /\ matched = {} => (ret'.result = "False" /\ grades' = grades)
              /\ ret'.result = "True" => matched # {} ]_vars

(***************************************************************************)
(* C15: in every reachable state every grade row references a student of   *)
(* the roster and a subject of the catalog (deleting a student or a        *)
(* subject removes the grade rows that reference it).                      *)
(***************************************************************************)
C15_GradeRowsReferenceExistingRows ==
    \A g \in grades :
        /\ g.student_id \in students
        /\ \E s \in subjects : s.id = g.subject_id

(***************************************************************************)
(* C16: in every reachable state, after any catalog create, update and     *)
(* delete, the prerequisite of each subject is empty or the id of a        *)
(* subject of the catalog.                                                 *)
(***************************************************************************)
C16_PrerequisiteReferencesExistingSubject ==
    \A s \in subjects :
        \/ s.prerequisite = NULL
        \/ \E t \in subjects : t.id = s.prerequisite

\* Another subject than the one of the request holds the code of the
\* request.
CodeHeldByOther(call) ==
    \E s \in subjects : s.id # call.subject_id /\ s.code = call.code

(***************************************************************************)
(* C17: no two subjects of the catalog share a code; add_subject with a    *)
(* code that exists fails and leaves the catalog unchanged; edit_subject   *)
(* of an existing subject to a code another subject holds fails and leaves *)
(* the catalog unchanged; edit_subject keeping the subject's own code      *)
(* succeeds.                                                               *)
(***************************************************************************)
C17_CodesUnique ==
    /\ [](\A s, t \in subjects : s.code = t.code => s = t)
    /\ [][ /\ (ret = NoRet /\ ret'.op = "add_subject"
                 /\ \E s \in subjects : s.code = ret'.code)
              => (ret'.result = "Failed to add subject"
                    /\ subjects' = subjects)
           /\ (ret = NoRet /\ ret'.op = "edit_subject"
                 /\ (\E s \in subjects : s.id = ret'.subject_id)
                 /\ CodeHeldByOther(ret'))
              => (ret'.result = "Failed to update subject"
                    /\ subjects' = subjects)
           /\ (ret = NoRet /\ ret'.op = "edit_subject"
                 /\ \E s \in subjects : /\ s.id = ret'.subject_id
                                        /\ s.code = ret'.code)
              => ret'.result = "Subject updated successfully!" ]_vars

C17_Witness ==
    /\ ret.op = "edit_subject"
    /\ ret.result = "Failed to update subject"
    /\ \E s \in subjects : s.id = ret.subject_id /\ s.code # ret.code
    /\ CodeHeldByOther(ret)

(***************************************************************************)
(* C19: when an access to the store fails during an operation, the two     *)
(* gates included, no exception leaves the operation and the operation     *)
(* does not report success: it returns a failure value.                    *)
(***************************************************************************)
C19_StoreFailureReturnedAsFailure ==
    (ret # NoRet /\ ret.failed) => ret.result = "False"

\* The rows of the student and subject the last call named, in the given
\* table.
SubjectRowsOfCall(call, table) ==
    { g \in table : /\ g.student_id = call.student_id
                    /\ g.subject_id = call.subject_id }

(***************************************************************************)
(* C21: when the student holds two or more rows of the subject, every      *)
(* db_update_grade call for that student and subject, whatever the target  *)
(* semester, returns False and leaves every row of the grades table        *)
(* unchanged.                                                              *)
(***************************************************************************)
C21_UpdateOfSeveralRowsFails ==
    [][ (/\ ret = NoRet
         /\ ret'.op = "db_update_grade"
         /\ Cardinality(SubjectRowsOfCall(ret', grades)) >= 2)
            => (ret'.result = "False" /\ grades' = grades) ]_vars

C21_Witness ==
    /\ ret.op = "db_update_grade"
    /\ ret.result = "False"
    /\ Cardinality(SubjectRowsOfCall(ret, grades)) >= 2
    /\ \A g \in SubjectRowsOfCall(ret, grades) :
         g.semester # ret.semester /\ g.last_updated < now

\* Following prerequisite links from cur, in at most steps links, arrives
\* at start.
RECURSIVE ReturnsTo(_, _, _)
ReturnsTo(start, cur, steps) ==
    IF steps = 0 \/ PrerequisiteOf(cur) = NULL
    THEN FALSE
    ELSE \/ PrerequisiteOf(cur) = start
         \/ ReturnsTo(start, PrerequisiteOf(cur), steps - 1)

(***************************************************************************)
(* C22: in every reachable state, after any catalog create and update, the *)
(* prerequisite relation is a forest: no subject is its own prerequisite   *)
(* and following prerequisite links from a subject never returns to it.    *)
(***************************************************************************)
C22_PrerequisiteRelationIsForest ==
    \A s \in subjects :
        /\ s.prerequisite # s.id
        /\ ~ReturnsTo(s.id, s.id, Cardinality(subjects))

\* The subject id is not in the catalog.
UnknownSubject(subject_id) == ~ \E s \in subjects : s.id = subject_id

C24_OrphanOnlyByInterleaving ==
    ~C20_DependentRowHasEarlierPrerequisiteRow => pc.overlapped

C24_Witness ==
    /\ ~C20_DependentRowHasEarlierPrerequisiteRow
    /\ pc.a = "done" /\ pc.b = "done"
    /\ ret.a.result = "Grade added successfully!"
    /\ ret.b.result = "Grade deleted successfully!"

====
